---- MODULE Spec2Model ----
(***************************************************************************)
(* FramePusher: nested frames pushed by a dragged handle.                  *)
(*                                                                         *)
(* The model covers the Physics engine (Physics.js), the orchestrating     *)
(* FramePusher class (FramePusher.js), the EventHandler (drag controller), *)
(* the TweakpaneConfig control panel and the App lifecycle (main.js).      *)
(*                                                                         *)
(* JavaScript numbers are modelled as exact rationals [n, d] (d > 0, in    *)
(* lowest terms): positions are (canvas.width - size) / 2 and velocities   *)
(* are scaled by DAMPING and SPRING_STRENGTH, so they need not be integers.*)
(* Sizes (width, height, thickness, gap) stay integers, as the code        *)
(* derives them from integer inputs by + - * only.                         *)
(***************************************************************************)
EXTENDS Integers, Sequences, FiniteSets, TLC

VARIABLES
    canvas,        \* the canvas element: [width, height]
    config,        \* FramePusher.config
    physics,       \* the Physics instance (its copy of the configuration)
    frames,        \* FramePusher.frames, outermost first, handle last
    isRunning,     \* FramePusher.isRunning
    animationId,   \* FramePusher.animationId (0 models null)
    rafPending,    \* ids of the animation-frame callbacks the browser holds
    handlers,      \* every EventHandler constructed so far; the last is game.eventHandler
    tweakpane,     \* the TweakpaneConfig instance (game.tweakpane), if any
    timers,        \* pending setTimeout callbacks of the control panel: [id, key, value]
    lastOp,        \* what produced this state: "construct", "tick" (an _animate
                   \* that passed its isRunning check), "start" (a start() while running),
                   \* "stop", "destroy", "reset", "dragstart" and "dragend" (a press or release that
                   \* called onDragStart or onDragEnd), "event" (anything else), or
                   \* the name of the operation a direct call ran
    lastUpdate,    \* the engine update the last operation ran: "drag", "settling",
                   \* "idle" (a tick that selected none), "threw", or "none" (no tick)
    prev,          \* the store the last tick or direct call started from (<<>> after an event)
    calls,         \* the names of the direct calls made so far, in order
    rendered,      \* what the last operation drew: the arguments of drawScene,
                   \* or NotRendered when it drew nothing
    app            \* the App of main.js: [deferred, errorShown]

vars == <<canvas, config, physics, frames, isRunning, animationId, rafPending,
          handlers, tweakpane, timers, lastOp, lastUpdate, prev, calls,
          rendered, app>>

\* new App(), and what App.init found: deferred tells whether the document was
\* still loading, so that the creation of the game was left to the
\* DOMContentLoaded listener; errorShown whether _showError has run.
NewApp(deferred) == [deferred |-> deferred, errorShown |-> FALSE]

\* App.init wraps _waitForDOM in try/catch and calls _showError in the catch.
\* The callback runs inside that try only when it runs at once; run later by
\* the DOMContentLoaded event, what it throws reaches no handler of the App.
AfterCreateGameInstance(a, threw) ==
    IF threw /\ ~a.deferred THEN [a EXCEPT !.errorShown = TRUE] ELSE a

\* No scene was drawn.
NotRendered == [drawn |-> FALSE, frames |-> <<>>, isDragging |-> FALSE]

\* An event other than a tick: the store the last tick started from is no
\* longer recorded, and no direct call is made.
Forgotten == prev' = <<>> /\ rendered' = NotRendered /\ UNCHANGED calls

(***************************************************************************)
(* Bounds of the model.                                                    *)
(***************************************************************************)
MaxFrames == 3
MaxCanvasSteps == 2
MaxHandlers == 2

(***************************************************************************)
(* Exact rational arithmetic for JavaScript numbers.                       *)
(***************************************************************************)
Abs(a) == IF a < 0 THEN -a ELSE a

RECURSIVE GCD(_, _)
GCD(a, b) == IF b = 0 THEN a ELSE GCD(b, a % b)

Rat(n, d) ==
    LET g == GCD(Abs(n), Abs(d))
        s == IF d < 0 THEN -1 ELSE 1
    IN  [n |-> (s * n) \div g, d |-> (s * d) \div g]

Num(i) == [n |-> i, d |-> 1]

\* The least common denominator keeps the intermediate products small.
LCD(a, b) == (a.d \div GCD(a.d, b.d)) * b.d

Plus(a, b) ==
    LET l == LCD(a, b) IN Rat(a.n * (l \div a.d) + b.n * (l \div b.d), l)

Minus(a, b) ==
    LET l == LCD(a, b) IN Rat(a.n * (l \div a.d) - b.n * (l \div b.d), l)

Times(a, b) ==
    LET g1 == GCD(Abs(a.n), b.d)
        g2 == GCD(Abs(b.n), a.d)
    IN  Rat((a.n \div g1) * (b.n \div g2), (a.d \div g2) * (b.d \div g1))

Less(a, b) ==
    LET l == LCD(a, b) IN a.n * (l \div a.d) < b.n * (l \div b.d)

LessEq(a, b) == ~Less(b, a)
Max(a, b) == IF Less(a, b) THEN b ELSE a
Min(a, b) == IF Less(b, a) THEN b ELSE a

(***************************************************************************)
(* Program constants.                                                      *)
(***************************************************************************)
DefaultThickness == 20
DefaultGap == 10
HandleSize == 40
DefaultDamping == Rat(9, 10)
DefaultSpring == Rat(1, 5)

DefaultConfig ==
    [FRAME_THICKNESS |-> DefaultThickness, GAP |-> DefaultGap,
     HANDLE_SIZE |-> HandleSize, DAMPING |-> DefaultDamping,
     SPRING_STRENGTH |-> DefaultSpring, NUM_FRAMES |-> 0]

(***************************************************************************)
(* Physics (Physics.js).                                                   *)
(***************************************************************************)
\* Faulty variant: the engine keeps the default thickness whatever it is given.
NewPhysicsDefaultThickness(cfg) ==
    [FRAME_THICKNESS |-> 20, GAP |-> cfg.GAP,
     DAMPING |-> cfg.DAMPING, SPRING_STRENGTH |-> cfg.SPRING_STRENGTH]

\* new Physics(config): the engine copies four fields of the configuration.
NewPhysics(cfg) ==
    [FRAME_THICKNESS |-> cfg.FRAME_THICKNESS, GAP |-> cfg.GAP,
     DAMPING |-> cfg.DAMPING, SPRING_STRENGTH |-> cfg.SPRING_STRENGTH]

\* Faulty variant: the comparison of the left push is turned around.
ApplyLeftPushInverted(parent, child, parentInnerOffset) ==
    LET targetX == Minus(child.x, Num(parentInnerOffset))
    IN  IF Less(parent.x, targetX) THEN [parent EXCEPT !.x = targetX] ELSE parent

ApplyLeftPush(parent, child, parentInnerOffset) ==
    LET targetX == Minus(child.x, Num(parentInnerOffset))
    IN  IF Less(targetX, parent.x) THEN [parent EXCEPT !.x = targetX] ELSE parent

\* Faulty variant: the right push forgets the parent's inner offset.
ApplyRightPushNoOffset(parent, child, parentInnerOffset) ==
    LET targetX == Plus(child.x, Num(child.width - parent.width))
    IN  IF Less(parent.x, targetX) THEN [parent EXCEPT !.x = targetX] ELSE parent

\* Faulty variant: the comparison of the right push is turned around.
ApplyRightPushInverted(parent, child, parentInnerOffset) ==
    LET targetX == Plus(child.x, Num(child.width - parent.width + parentInnerOffset))
    IN  IF Less(targetX, parent.x) THEN [parent EXCEPT !.x = targetX] ELSE parent

ApplyRightPush(parent, child, parentInnerOffset) ==
    LET targetX == Plus(child.x, Num(child.width - parent.width + parentInnerOffset))
    IN  IF Less(parent.x, targetX) THEN [parent EXCEPT !.x = targetX] ELSE parent

\* Faulty variant: the top push always aligns the parent with its target.
ApplyTopPushSnapping(parent, child, parentInnerOffset) ==
    LET targetY == Minus(child.y, Num(parentInnerOffset))
    IN  [parent EXCEPT !.y = targetY]

ApplyTopPush(parent, child, parentInnerOffset) ==
    LET targetY == Minus(child.y, Num(parentInnerOffset))
    IN  IF Less(targetY, parent.y) THEN [parent EXCEPT !.y = targetY] ELSE parent

\* Faulty variant: the bottom push carries the parent one offset too far.
ApplyBottomPushOvershooting(parent, child, parentInnerOffset) ==
    LET targetY == Plus(child.y, Num(child.height - parent.height + parentInnerOffset))
    IN  IF Less(parent.y, targetY)
        THEN [parent EXCEPT !.y = Plus(targetY, Num(parentInnerOffset))]
        ELSE parent

ApplyBottomPush(parent, child, parentInnerOffset) ==
    LET targetY == Plus(child.y, Num(child.height - parent.height + parentInnerOffset))
    IN  IF Less(parent.y, targetY) THEN [parent EXCEPT !.y = targetY] ELSE parent

\* Faulty variant: a parent that is pushed is also brought to rest.
PushParentStopping(parent, child, parentInnerOffset) ==
    LET pushed == ApplyBottomPush(
                      ApplyTopPush(
                          ApplyRightPush(
                              ApplyLeftPush(parent, child, parentInnerOffset),
                              child, parentInnerOffset),
                          child, parentInnerOffset),
                      child, parentInnerOffset)
    IN  IF pushed = parent THEN parent
        ELSE [pushed EXCEPT !.vx = Num(0), !.vy = Num(0)]

\* Faulty variant: the right push runs before the left push.
PushParentRightFirst(parent, child, parentInnerOffset) ==
    ApplyBottomPush(
        ApplyTopPush(
            ApplyLeftPush(
                ApplyRightPush(parent, child, parentInnerOffset),
                child, parentInnerOffset),
            child, parentInnerOffset),
        child, parentInnerOffset)

\* The body of the loop of updateDragPhysics: the four pushes, in the code's order.
PushParent(parent, child, parentInnerOffset) ==
    ApplyBottomPush(
        ApplyTopPush(
            ApplyRightPush(
                ApplyLeftPush(parent, child, parentInnerOffset),
                child, parentInnerOffset),
            child, parentInnerOffset),
        child, parentInnerOffset)

\* Faulty variant: the loop stops one pair early (i > 0 for i >= 0), so the
\* outermost frame is never pushed.
RECURSIVE DragLoopSkippingOuter(_, _, _)
DragLoopSkippingOuter(frs, i, thickness) ==
    IF i < 2 THEN frs
    ELSE DragLoopSkippingOuter(
             [frs EXCEPT ![i] = PushParent(frs[i], frs[i + 1], thickness)],
             i - 1, thickness)

\* for (let i = numFrames - 2; i >= 0; i--), with the store indexed from 1:
\* parent = frs[i], child = frs[i + 1], i from numFrames - 1 down to 1.
RECURSIVE DragLoop(_, _, _)
DragLoop(frs, i, thickness) ==
    IF i < 1 THEN frs
    ELSE DragLoop([frs EXCEPT ![i] = PushParent(frs[i], frs[i + 1], thickness)],
                  i - 1, thickness)

\* Faulty variant: the pairs are processed from the outermost frame inward.
RECURSIVE DragLoopOutward(_, _, _, _)
DragLoopOutward(frs, i, numFrames, thickness) ==
    IF i > numFrames - 1 THEN frs
    ELSE DragLoopOutward(
             [frs EXCEPT ![i] = PushParent(frs[i], frs[i + 1], thickness)],
             i + 1, numFrames, thickness)

UpdateDragPhysicsOutward(phys, frs, numFrames) ==
    DragLoopOutward(frs, 1, numFrames, phys.FRAME_THICKNESS)

\* Faulty variant: every parent is pushed against its child as the child was
\* when the call began, not as the call has already corrected it.
UpdateDragPhysicsSnapshot(phys, frs, numFrames) ==
    [i \in 1..Len(frs) |->
        IF i < numFrames
        THEN PushParent(frs[i], frs[i + 1], phys.FRAME_THICKNESS)
        ELSE frs[i]]

UpdateDragPhysics(phys, frs, numFrames) ==
    DragLoop(frs, numFrames - 1, phys.FRAME_THICKNESS)

\* frames[i + 1] is undefined when numFrames exceeds the store: reading its x throws.
DragPhysicsThrows(frs, numFrames) == numFrames >= 2 /\ numFrames > Len(frs)

\* Faulty variant: only the horizontal velocity is zeroed.
StopAllMovementHorizontal(frs) ==
    [i \in 1..Len(frs) |-> [frs[i] EXCEPT !.vx = Num(0)]]

\* Faulty variant: the size fields are zeroed in place of the velocities.
StopAllMovementCollapsing(frs) ==
    [i \in 1..Len(frs) |-> [frs[i] EXCEPT !.width = 0, !.height = 0]]

StopAllMovement(frs) ==
    [i \in 1..Len(frs) |-> [frs[i] EXCEPT !.vx = Num(0), !.vy = Num(0)]]

\* Faulty variant: the position advances by the velocity before damping.
IntegrateBeforeDamping(phys, frame) ==
    [frame EXCEPT !.vx = Times(frame.vx, phys.DAMPING),
                  !.vy = Times(frame.vy, phys.DAMPING),
                  !.x = Plus(frame.x, frame.vx), !.y = Plus(frame.y, frame.vy)]

\* First loop of updateSettlingPhysics: damping, then integration.
Integrate(phys, frame) ==
    LET vx == Times(frame.vx, phys.DAMPING)
        vy == Times(frame.vy, phys.DAMPING)
    IN  [frame EXCEPT !.vx = vx, !.vy = vy,
                      !.x = Plus(frame.x, vx), !.y = Plus(frame.y, vy)]

\* The canvas as the parent of the outermost frame.
CanvasFrame(canvasWidth, canvasHeight) ==
    [x |-> Num(0), y |-> Num(0), width |-> canvasWidth, height |-> canvasHeight,
     vx |-> Num(0), vy |-> Num(0)]

GetParentFrame(frs, i, canvasWidth, canvasHeight) ==
    IF i > 1 THEN frs[i - 1] ELSE CanvasFrame(canvasWidth, canvasHeight)

\* Faulty variant: the lower bounds take the inner offset twice.
CalculateBoundariesDoubleOffset(parent, frame, parentInnerOffset) ==
    [minX |-> Plus(parent.x, Num(2 * parentInnerOffset)),
     maxX |-> Plus(parent.x, Num(parent.width - parentInnerOffset - frame.width)),
     minY |-> Plus(parent.y, Num(2 * parentInnerOffset)),
     maxY |-> Plus(parent.y, Num(parent.height - parentInnerOffset - frame.height))]

CalculateBoundaries(parent, frame, parentInnerOffset) ==
    [minX |-> Plus(parent.x, Num(parentInnerOffset)),
     maxX |-> Plus(parent.x, Num(parent.width - parentInnerOffset - frame.width)),
     minY |-> Plus(parent.y, Num(parentInnerOffset)),
     maxY |-> Plus(parent.y, Num(parent.height - parentInnerOffset - frame.height))]

Half == Rat(1, 2)

\* _applySpringForces with the parent receiving the whole impulse.
SpringXFullReaction(phys, pair, overlap, violated, hasParent) ==
    IF ~violated THEN pair
    ELSE [frame |-> [pair.frame EXCEPT
                        !.vx = Plus(@, Times(overlap, phys.SPRING_STRENGTH))],
          parent |-> IF hasParent
                     THEN [pair.parent EXCEPT
                              !.vx = Minus(@, Times(overlap, phys.SPRING_STRENGTH))]
                     ELSE pair.parent]

\* One of the four blocks of _applySpringForces on the x axis: pair = [frame, parent].
SpringX(phys, pair, overlap, violated, hasParent) ==
    IF ~violated THEN pair
    ELSE [frame |-> [pair.frame EXCEPT
                        !.vx = Plus(@, Times(overlap, phys.SPRING_STRENGTH))],
          parent |-> IF hasParent
                     THEN [pair.parent EXCEPT
                              !.vx = Minus(@, Times(Times(overlap, phys.SPRING_STRENGTH), Half))]
                     ELSE pair.parent]

SpringY(phys, pair, overlap, violated, hasParent) ==
    IF ~violated THEN pair
    ELSE [frame |-> [pair.frame EXCEPT
                        !.vy = Plus(@, Times(overlap, phys.SPRING_STRENGTH))],
          parent |-> IF hasParent
                     THEN [pair.parent EXCEPT
                              !.vy = Minus(@, Times(Times(overlap, phys.SPRING_STRENGTH), Half))]
                     ELSE pair.parent]

\* _applySpringForces: left, right, top, bottom, in that order. The overlaps read
\* only positions, which the springs do not change.
ApplySpringForces(phys, frame, parent, boundaries, hasParent) ==
    LET left   == Minus(boundaries.minX, frame.x)
        right  == Minus(boundaries.maxX, frame.x)
        top    == Minus(boundaries.minY, frame.y)
        bottom == Minus(boundaries.maxY, frame.y)
        p0 == [frame |-> frame, parent |-> parent]
        p1 == SpringX(phys, p0, left, Less(Num(0), left), hasParent)
        p2 == SpringX(phys, p1, right, Less(right, Num(0)), hasParent)
        p3 == SpringY(phys, p2, top, Less(Num(0), top), hasParent)
    IN  SpringY(phys, p3, bottom, Less(bottom, Num(0)), hasParent)

\* Second loop of updateSettlingPhysics: i from the last frame down to the first.
RECURSIVE SpringLoop(_, _, _, _, _)
SpringLoop(phys, frs, i, canvasWidth, canvasHeight) ==
    IF i < 1 THEN frs
    ELSE LET frame == frs[i]
             parent == GetParentFrame(frs, i, canvasWidth, canvasHeight)
             parentInnerOffset == IF i > 1 THEN phys.FRAME_THICKNESS ELSE 0
             boundaries == CalculateBoundaries(parent, frame, parentInnerOffset)
             pair == ApplySpringForces(phys, frame, parent, boundaries, i > 1)
             withFrame == [frs EXCEPT ![i] = pair.frame]
             withBoth == IF i > 1 THEN [withFrame EXCEPT ![i - 1] = pair.parent]
                         ELSE withFrame
         IN  SpringLoop(phys, withBoth, i - 1, canvasWidth, canvasHeight)

UpdateSettlingPhysics(phys, frs, canvasWidth, canvasHeight) ==
    SpringLoop(phys, [i \in 1..Len(frs) |-> Integrate(phys, frs[i])],
               Len(frs), canvasWidth, canvasHeight)

(***************************************************************************)
(* FramePusher: the frame store (FramePusher.js).                          *)
(***************************************************************************)
StepDown(cfg) == (cfg.GAP + cfg.FRAME_THICKNESS) * 2

\* _calculateNumFrames counting one frame more than fits.
CalculateNumFramesOneMore(cfg, canvasWidth) ==
    IF StepDown(cfg) <= 0 THEN 1
    ELSE LET available == canvasWidth - cfg.HANDLE_SIZE
             count == available \div StepDown(cfg)
         IN  IF count + 2 > 1 THEN count + 2 ELSE 1

CalculateNumFrames(cfg, canvasWidth) ==
    IF StepDown(cfg) <= 0 THEN 1
    ELSE LET available == canvasWidth - cfg.HANDLE_SIZE
             count == available \div StepDown(cfg)
         IN  IF count + 1 > 1 THEN count + 1 ELSE 1

\* The frame pushed for index i (from 1) of numFrames.
CreateFrame(cfg, canvasWidth, i, numFrames) ==
    LET size == IF i = numFrames THEN cfg.HANDLE_SIZE
                ELSE canvasWidth - (i - 1) * StepDown(cfg)
        position == Rat(canvasWidth - size, 2)
    IN  [x |-> position, y |-> position, vx |-> Num(0), vy |-> Num(0),
         width |-> size, height |-> size]

\* _createFrames: the new store; config.NUM_FRAMES becomes its length.
CreateFrames(cfg, canvasWidth) ==
    LET numFrames == CalculateNumFrames(cfg, canvasWidth)
    IN  [i \in 1..numFrames |-> CreateFrame(cfg, canvasWidth, i, numFrames)]

Last(frs) == Len(frs)

(***************************************************************************)
(* EventHandler (the drag controller).                                     *)
(*                                                                         *)
(* dragInfo.target is a reference to a frame object. It is modelled as     *)
(* [live, index, obj]: live = TRUE when the object is element `index` of   *)
(* the current store, and otherwise obj is the object itself, which the    *)
(* store no longer holds (the store was rebuilt since).                    *)
(***************************************************************************)
NoFrame ==
    [x |-> Num(0), y |-> Num(0), vx |-> Num(0), vy |-> Num(0), width |-> 0, height |-> 0]

LiveTarget(index) == [live |-> TRUE, index |-> index, obj |-> NoFrame]

\* new EventHandler(canvas, dragTarget): dragInfo, and _bindEvents.
NewEventHandler(target) ==
    [isDragging |-> FALSE, target |-> target, offsetX |-> Num(0), offsetY |-> Num(0),
     bound |-> TRUE]

TargetFrame(h, frs) == IF h.target.live THEN frs[h.target.index] ELSE h.target.obj

IsPointInFrame(point, frame) ==
    /\ Less(frame.x, point.x)
    /\ Less(point.x, Plus(frame.x, Num(frame.width)))
    /\ Less(frame.y, point.y)
    /\ Less(point.y, Plus(frame.y, Num(frame.height)))

\* _handleDragStart on one handler: its new dragInfo (onDragStart is the caller's part).
HandleDragStart(h, frs, position) ==
    LET target == TargetFrame(h, frs)
    IN  IF IsPointInFrame(position, target)
        THEN [h EXCEPT !.isDragging = TRUE,
                       !.offsetX = Minus(position.x, target.x),
                       !.offsetY = Minus(position.y, target.y)]
        ELSE h

\* The position _handleDragMove writes to its target.
ClampedTarget(h, target, position, cnv) ==
    LET newX == Minus(position.x, h.offsetX)
        newY == Minus(position.y, h.offsetY)
        maxX == Num(cnv.width - target.width)
        maxY == Num(cnv.height - target.height)
    IN  [target EXCEPT !.x = Max(Num(0), Min(newX, maxX)),
                       !.y = Max(Num(0), Min(newY, maxY))]

\* _handleDragMove on handler k: the target object is written where it lives.
HandleDragMove(hs, frs, k, position, cnv) ==
    LET h == hs[k]
        moved == ClampedTarget(h, TargetFrame(h, frs), position, cnv)
    IN  IF h.target.live
        THEN [handlers |-> hs, frames |-> [frs EXCEPT ![h.target.index] = moved]]
        ELSE [handlers |-> [hs EXCEPT ![k].target.obj = moved], frames |-> frs]

HandleDragEnd(h) == IF h.isDragging THEN [h EXCEPT !.isDragging = FALSE] ELSE h

\* Faulty variant: the drag-start callback is never called.
RECURSIVE DispatchStartSilent(_, _, _, _)
DispatchStartSilent(hs, frs, k, position) ==
    IF k > Len(hs) THEN [handlers |-> hs, frames |-> frs]
    ELSE IF ~hs[k].bound THEN DispatchStartSilent(hs, frs, k + 1, position)
    ELSE DispatchStartSilent([hs EXCEPT ![k] = HandleDragStart(hs[k], frs, position)],
                             frs, k + 1, position)

\* A press dispatched to every handler whose listeners are bound, in the order
\* they were bound. A handler that starts a drag calls onDragStart, which is
\* FramePusher._onDragStart: physics.stopAllMovement(this.frames).
RECURSIVE DispatchStart(_, _, _, _)
DispatchStart(hs, frs, k, position) ==
    IF k > Len(hs) THEN [handlers |-> hs, frames |-> frs]
    ELSE IF ~hs[k].bound THEN DispatchStart(hs, frs, k + 1, position)
    ELSE LET started == IsPointInFrame(position, TargetFrame(hs[k], frs))
             h2 == HandleDragStart(hs[k], frs, position)
         IN  DispatchStart([hs EXCEPT ![k] = h2],
                           IF started THEN StopAllMovement(frs) ELSE frs,
                           k + 1, position)

\* Faulty variant: the move handlers do not look at the dragging flag.
RECURSIVE DispatchMoveUnguarded(_, _, _, _, _)
DispatchMoveUnguarded(hs, frs, k, position, cnv) ==
    IF k > Len(hs) THEN [handlers |-> hs, frames |-> frs]
    ELSE IF ~hs[k].bound
         THEN DispatchMoveUnguarded(hs, frs, k + 1, position, cnv)
    ELSE LET r == HandleDragMove(hs, frs, k, position, cnv)
         IN  DispatchMoveUnguarded(r.handlers, r.frames, k + 1, position, cnv)

\* A move dispatched to every bound handler: _handleMouseMove / _handleTouchMove
\* return at once unless that handler is dragging.
RECURSIVE DispatchMove(_, _, _, _, _)
DispatchMove(hs, frs, k, position, cnv) ==
    IF k > Len(hs) THEN [handlers |-> hs, frames |-> frs]
    ELSE IF ~hs[k].bound \/ ~hs[k].isDragging
         THEN DispatchMove(hs, frs, k + 1, position, cnv)
    ELSE LET r == HandleDragMove(hs, frs, k, position, cnv)
         IN  DispatchMove(r.handlers, r.frames, k + 1, position, cnv)

DispatchEnd(hs) ==
    [k \in 1..Len(hs) |-> IF hs[k].bound THEN HandleDragEnd(hs[k]) ELSE hs[k]]

\* this.frames = [] in _createFrames: a target that was an element of the old
\* store keeps referring to that object, which the new store does not hold.
Detach(hs, frs) ==
    [k \in 1..Len(hs) |->
        IF hs[k].target.live
        THEN [hs[k] EXCEPT !.target = [live |-> FALSE, index |-> 0,
                                       obj |-> frs[hs[k].target.index]]]
        ELSE hs[k]]

\* game.eventHandler.isDragging(): the handler constructed last.
IsDragging(hs) == hs[Len(hs)].isDragging

(***************************************************************************)
(* Inputs of the model.                                                    *)
(***************************************************************************)
\* Canvas sizes: the handle alone, and room for one more frame per step.
CanvasWidths == {HandleSize + k * StepDown(DefaultConfig) : k \in 0..MaxCanvasSteps}

\* Pointer and touch coordinates relative to the canvas; window-level moves
\* may lie outside it.
Point(px, py) == [x |-> Num(px), y |-> Num(py)]

Positions(w) ==
    {Point(w \div 2, w \div 2), Point(HandleSize \div 2, HandleSize \div 2),
     Point(w + HandleSize, w \div 2)}

MorePositions(w) ==
    {Point(-HandleSize, w + HandleSize), Point((w \div 2) + 10, (w \div 2) - 10)}

\* requestAnimationFrame returns a handle that no pending callback uses. The
\* browser's handles only grow; the caller overwrites the one handle it stored,
\* so the least unused number is the same handle up to renaming.
FreshId(pending) ==
    CHOOSE i \in 1..(Cardinality(pending) + 1) :
        i \notin pending /\ \A j \in 1..(i - 1) : j \in pending

\* Values the control panel's sliders are moved to (thickness 5..50, gap 0..30).
PaneThicknesses == {DefaultThickness, DefaultThickness + DefaultGap}

PaneGaps == {DefaultGap, DefaultGap + DefaultGap}

(***************************************************************************)
(* TweakpaneConfig (the control panel).                                    *)
(***************************************************************************)
NoTweakpane(dev) ==
    [dev |-> dev, exists |-> FALSE, disposed |-> FALSE,
     params |-> [frameThickness |-> 0, gap |-> 0], updateTimeout |-> 0]

\* new TweakpaneConfig(game).
NewTweakpane(cfg) ==
    [dev |-> TRUE, exists |-> TRUE, disposed |-> FALSE,
     params |-> [frameThickness |-> cfg.FRAME_THICKNESS, gap |-> cfg.GAP],
     updateTimeout |-> 0]

\* clearTimeout(id): a no-op for an id that is not pending.
ClearTimeout(pending, id) == {t \in pending : t.id # id}

\* setTimeout returns a handle that no pending timer uses (see FreshId).
FreshTimer(pending) == FreshId({t.id : t \in pending})

\* game.updateConfig(newConfig): the merged configuration (a new Physics and a
\* new Renderer are built from it by the caller's action).
UpdateConfig(cfg, key, value) ==
    IF key = "FRAME_THICKNESS" THEN [cfg EXCEPT !.FRAME_THICKNESS = value]
    ELSE [cfg EXCEPT !.GAP = value]

(***************************************************************************)
(* FramePusher: the animation loop.                                        *)
(***************************************************************************)
\* Faulty variant: the settling branch is live.
UpdatePhysicsSettling(dragging, phys, frs, numFrames, cnv) ==
    IF dragging
    THEN [frames |-> UpdateDragPhysics(phys, frs, numFrames), update |-> "drag"]
    ELSE [frames |-> UpdateSettlingPhysics(phys, frs, cnv.width, cnv.height),
          update |-> "settling"]

\* _updatePhysics: the store after the update, and the engine update selected.
UpdatePhysics(dragging, phys, frs, numFrames, cnv) ==
    IF dragging
    THEN [frames |-> UpdateDragPhysics(phys, frs, numFrames), update |-> "drag"]
    ELSE [frames |-> frs, update |-> "idle"]

\* _render: renderer.drawScene(this.frames, this.eventHandler.isDragging()).
Render(frs, dragging) == [drawn |-> TRUE, frames |-> frs, isDragging |-> dragging]

\* Faulty variant: _animate draws the scene before it updates the physics.
AnimateRenderFirst(running, pending) ==
    IF ~running
    THEN /\ frames' = frames
         /\ prev' = <<>>
         /\ rendered' = NotRendered
         /\ UNCHANGED app
         /\ lastOp' = "event"
         /\ lastUpdate' = "none"
         /\ rafPending' = pending
         /\ animationId' = animationId
    ELSE LET r == UpdatePhysics(IsDragging(handlers), physics, frames,
                                config.NUM_FRAMES, canvas)
             id == FreshId(pending)
         IN  /\ rendered' = Render(frames, IsDragging(handlers))
             /\ frames' = r.frames
             /\ prev' = frames
             /\ UNCHANGED app
             /\ lastOp' = "tick"
             /\ lastUpdate' = r.update
             /\ rafPending' = pending \cup {id}
             /\ animationId' = id

\* _animate, entered with isRunning = running and the browser holding `pending`:
\* _updatePhysics(), then _render(), then requestAnimationFrame. An update that
\* throws ends the callback before anything is drawn or requested.
Animate(running, pending) ==
    IF ~running
    THEN /\ frames' = frames
         /\ prev' = <<>>
         /\ rendered' = NotRendered
         /\ UNCHANGED app
         /\ lastOp' = "event"
         /\ lastUpdate' = "none"
         /\ rafPending' = pending
         /\ animationId' = animationId
    ELSE IF IsDragging(handlers) /\ DragPhysicsThrows(frames, config.NUM_FRAMES)
    THEN /\ frames' = frames
         /\ prev' = frames
         /\ rendered' = NotRendered
         /\ UNCHANGED app
         /\ lastOp' = "tick"
         /\ lastUpdate' = "threw"
         /\ rafPending' = pending
         /\ animationId' = animationId
    ELSE LET r == UpdatePhysics(IsDragging(handlers), physics, frames,
                                config.NUM_FRAMES, canvas)
             id == FreshId(pending)
         IN  /\ frames' = r.frames
             /\ prev' = frames
             /\ rendered' = Render(r.frames, IsDragging(handlers))
             /\ UNCHANGED app
             /\ lastOp' = "tick"
             /\ lastUpdate' = r.update
             /\ rafPending' = pending \cup {id}
             /\ animationId' = id

\* Faulty variant: start() without its isRunning check.
StartBodyUnguarded ==
    /\ isRunning' = TRUE
    /\ Animate(TRUE, rafPending)

\* start(): a no-op while running, else isRunning = true and _animate().
StartBody ==
    IF isRunning
    THEN /\ UNCHANGED app
         /\ lastOp' = "start"
         /\ lastUpdate' = "none"
         /\ prev' = <<>>
         /\ rendered' = NotRendered
         /\ UNCHANGED <<frames, isRunning, animationId, rafPending>>
    ELSE /\ isRunning' = TRUE
         /\ Animate(TRUE, rafPending)

\* Faulty variant: stop() does nothing.
StopBodyIgnored ==
    UNCHANGED <<isRunning, rafPending, animationId>>

\* stop(): isRunning = false, and the stored callback, if any, is cancelled.
StopBody ==
    /\ isRunning' = FALSE
    /\ IF animationId # 0
       THEN rafPending' = rafPending \ {animationId} /\ animationId' = 0
       ELSE UNCHANGED <<rafPending, animationId>>

\* App._createGameInstance calls init() right after the constructor: nothing else
\* runs in between, and every other event finds the game initialized.
\* When the constructor threw, App.game stays null and no handler reaches a game.
Initialized == lastOp \notin {"load", "threw", "construct"}

\* FramePusher.init(), called once by App._createGameInstance: in development
\* mode the control panel is created, then start().
GameInit ==
    /\ lastOp = "construct"
    /\ tweakpane' = IF tweakpane.dev THEN NewTweakpane(config) ELSE tweakpane
    /\ StartBody
    /\ UNCHANGED calls
    /\ UNCHANGED <<timers, canvas, config, physics, handlers>>

\* App._handleVisibilityChange with the document visible: game.start().
Start ==
    /\ Initialized
    /\ StartBody
    /\ UNCHANGED calls
    /\ UNCHANGED <<tweakpane, timers, canvas, config, physics, handlers>>

\* App._handleVisibilityChange with the document hidden: game.stop().
Stop ==
    /\ Initialized
    /\ StopBody
    /\ UNCHANGED app
    /\ lastOp' = "stop"
    /\ lastUpdate' = "none"
    /\ prev' = frames
    /\ rendered' = NotRendered
    /\ UNCHANGED calls
    /\ UNCHANGED <<tweakpane, timers, canvas, config, physics, frames, handlers>>

\* FramePusher.destroy(): stop(); eventHandler.destroy() passes removeEventListener
\* functions freshly made by bind, which are not the ones that were added, so
\* every listener stays bound.
\* Then tweakpane.destroy(): the pending update is cleared and the pane disposed.
Destroy ==
    /\ Initialized
    /\ StopBody
    /\ IF tweakpane.exists
       THEN /\ timers' = ClearTimeout(timers, tweakpane.updateTimeout)
            /\ tweakpane' = [tweakpane EXCEPT !.disposed = TRUE]
       ELSE UNCHANGED <<tweakpane, timers>>
    /\ UNCHANGED app
    /\ lastOp' = "destroy"
    /\ lastUpdate' = "none"
    /\ Forgotten
    /\ UNCHANGED <<canvas, config, physics, frames, handlers>>

\* The browser runs a pending animation-frame callback: _animate.
AnimationFrame ==
    \E id \in rafPending :
        /\ Animate(isRunning, rafPending \ {id})
        /\ UNCHANGED calls
        /\ UNCHANGED <<tweakpane, timers, canvas, config, physics, isRunning, handlers>>

(***************************************************************************)
(* Pointer and touch events.                                               *)
(***************************************************************************)
\* The positions the model takes: fewer on a development host, where the
\* control panel multiplies the states.
PointerInputs ==
    IF tweakpane.dev THEN Positions(canvas.width)
    ELSE Positions(canvas.width) \cup MorePositions(canvas.width)

\* Some bound handler finds the press on its target and calls onDragStart.
StartNotified(hs, frs, position) ==
    \E k \in 1..Len(hs) :
        hs[k].bound /\ IsPointInFrame(position, TargetFrame(hs[k], frs))

\* Some bound handler is dragging when the release arrives and calls onDragEnd.
EndNotified(hs) == \E k \in 1..Len(hs) : hs[k].bound /\ hs[k].isDragging

PressBody(position) ==
    LET r == DispatchStart(handlers, frames, 1, position)
    IN  /\ handlers' = r.handlers
        /\ frames' = r.frames
        /\ UNCHANGED app
        /\ lastOp' = IF StartNotified(handlers, frames, position)
                      THEN "dragstart" ELSE "event"
        /\ lastUpdate' = "none"
        /\ Forgotten
        /\ UNCHANGED <<tweakpane, timers, canvas, config, physics, isRunning, animationId, rafPending>>

MoveBody(position) ==
    LET r == DispatchMove(handlers, frames, 1, position, canvas)
    IN  /\ handlers' = r.handlers
        /\ frames' = r.frames
        /\ UNCHANGED app
        /\ lastOp' = "event"
        /\ lastUpdate' = "none"
        /\ Forgotten
        /\ UNCHANGED <<tweakpane, timers, canvas, config, physics, isRunning, animationId, rafPending>>

ReleaseBody ==
    /\ handlers' = DispatchEnd(handlers)
    /\ UNCHANGED app
    /\ lastOp' = IF EndNotified(handlers) THEN "dragend" ELSE "event"
    /\ lastUpdate' = "none"
    /\ Forgotten
    /\ UNCHANGED <<tweakpane, timers, canvas, config, physics, frames, isRunning, animationId, rafPending>>

\* mousedown is bound on the canvas: the position lies on it.
OnCanvas(position) ==
    /\ LessEq(Num(0), position.x) /\ LessEq(position.x, Num(canvas.width))
    /\ LessEq(Num(0), position.y) /\ LessEq(position.y, Num(canvas.height))

MouseDown ==
    /\ Initialized
    /\ \E p \in PointerInputs : OnCanvas(p) /\ PressBody(p)

MouseMove == Initialized /\ \E p \in PointerInputs : MoveBody(p)

\* mouseup and mouseleave both run _handleMouseUp.
MouseUp == Initialized /\ ReleaseBody

\* touchstart: event.touches[0] may be missing, and then the handler returns.
TouchStart ==
    \/ /\ Initialized
       /\ \E p \in PointerInputs : OnCanvas(p) /\ PressBody(p)
    \/ /\ Initialized
       /\ UNCHANGED app
       /\ lastOp' = "event"
       /\ lastUpdate' = "none"
       /\ Forgotten
       /\ UNCHANGED <<tweakpane, timers, canvas, config, physics, frames, isRunning, animationId,
                      rafPending, handlers>>

TouchMove == Initialized /\ \E p \in PointerInputs : MoveBody(p)

\* touchend and touchcancel both run _handleTouchEnd.
TouchEnd == Initialized /\ ReleaseBody

(***************************************************************************)
(* Resize.                                                                 *)
(***************************************************************************)
\* FramePusher.resize(width, height), called by App with a square size:
\* renderer.resize sets the canvas, _createFrames rebuilds the store, and the
\* current handler is given the new handle.
Resize ==
    \E w \in CanvasWidths :
        LET store == CreateFrames(config, w)
            detached == Detach(handlers, frames)
        IN  /\ Initialized
            /\ canvas' = [width |-> w, height |-> w]
            /\ frames' = store
            /\ config' = [config EXCEPT !.NUM_FRAMES = Len(store)]
            /\ handlers' = [detached EXCEPT ![Len(detached)].target = LiveTarget(Len(store))]
            /\ UNCHANGED app
            /\ lastOp' = "event"
            /\ lastUpdate' = "none"
            /\ Forgotten
            /\ UNCHANGED <<tweakpane, timers, physics, isRunning, animationId, rafPending>>

(***************************************************************************)
(* Control panel events.                                                   *)
(***************************************************************************)
PaneUsable == tweakpane.exists /\ ~tweakpane.disposed

\* A slider is moved: the binding writes params, and the change handler runs
\* _debouncedUpdate(key, value, true).
DebouncedUpdate(key, value) ==
    LET cleared == IF tweakpane.updateTimeout # 0
                   THEN ClearTimeout(timers, tweakpane.updateTimeout)
                   ELSE timers
        id == FreshTimer(cleared)
    IN  /\ timers' = cleared \cup {[id |-> id, key |-> key, value |-> value]}
        /\ tweakpane' = [tweakpane EXCEPT
                            !.updateTimeout = id,
                            !.params = IF key = "FRAME_THICKNESS"
                                       THEN [@ EXCEPT !.frameThickness = value]
                                       ELSE [@ EXCEPT !.gap = value]]

\* Every debounce timer that fires constructs one more EventHandler; the model
\* stops taking changes once MaxHandlers exist.
PaneChange ==
    /\ PaneUsable
    /\ Len(handlers) < MaxHandlers
    /\ \/ \E v \in PaneThicknesses :
            v # tweakpane.params.frameThickness /\ DebouncedUpdate("FRAME_THICKNESS", v)
       \/ \E v \in PaneGaps :
            v # tweakpane.params.gap /\ DebouncedUpdate("GAP", v)
    /\ UNCHANGED app
    /\ lastOp' = "event"
    /\ lastUpdate' = "none"
    /\ Forgotten
    /\ UNCHANGED <<canvas, config, physics, frames, isRunning, animationId, rafPending,
                   handlers>>

\* The debounce timer fires: _updateConfig(key, value, true), that is
\* game.updateConfig, game._createFrames and game._initializeEventHandler.
PaneTimer ==
    \E t \in timers :
        LET cfg == UpdateConfig(config, t.key, t.value)
            store == CreateFrames(cfg, canvas.width)
        IN  /\ timers' = timers \ {t}
            /\ config' = [cfg EXCEPT !.NUM_FRAMES = Len(store)]
            /\ physics' = NewPhysics(cfg)
            /\ frames' = store
            /\ handlers' = Append(Detach(handlers, frames),
                                  NewEventHandler(LiveTarget(Len(store))))
            /\ UNCHANGED app
            /\ lastOp' = "event"
            /\ lastUpdate' = "none"
            /\ Forgotten
            /\ UNCHANGED <<tweakpane, canvas, isRunning, animationId, rafPending>>

\* Faulty variant: Reset rebuilds the store but the count is not recalculated.
PaneResetKeepingCount ==
    LET cfg == [config EXCEPT !.FRAME_THICKNESS = DefaultThickness, !.GAP = DefaultGap]
        store == CreateFrames(cfg, canvas.width)
    IN  /\ PaneUsable
        /\ tweakpane' = [tweakpane EXCEPT
                            !.params = [frameThickness |-> DefaultThickness,
                                        gap |-> DefaultGap]]
        /\ config' = cfg
        /\ physics' = NewPhysics(cfg)
        /\ frames' = store
        /\ handlers' = Detach(handlers, frames)
        /\ UNCHANGED app
        /\ lastOp' = "reset"
        /\ lastUpdate' = "none"
        /\ Forgotten
        /\ UNCHANGED <<timers, canvas, isRunning, animationId, rafPending>>

\* Reset is clicked: _resetToDefaults. The handler keeps its old drag target
\* (the call of _initializeEventHandler is commented out).
PaneReset ==
    LET cfg == [config EXCEPT !.FRAME_THICKNESS = DefaultThickness, !.GAP = DefaultGap]
        store == CreateFrames(cfg, canvas.width)
    IN  /\ PaneUsable
        /\ tweakpane' = [tweakpane EXCEPT
                            !.params = [frameThickness |-> DefaultThickness,
                                        gap |-> DefaultGap]]
        /\ config' = [cfg EXCEPT !.NUM_FRAMES = Len(store)]
        /\ physics' = NewPhysics(cfg)
        /\ frames' = store
        /\ handlers' = Detach(handlers, frames)
        /\ UNCHANGED app
        /\ lastOp' = "reset"
        /\ lastUpdate' = "none"
        /\ Forgotten
        /\ UNCHANGED <<timers, canvas, isRunning, animationId, rafPending>>

(***************************************************************************)
(* The program as wired by App.                                            *)
(***************************************************************************)
\* new FramePusher('game-canvas') on a canvas of width w; dev tells whether the
\* page is served from a development host (_isDevelopmentMode).
Constructed(w, dev) ==
    LET store == CreateFrames(DefaultConfig, w)
    IN  /\ canvas = [width |-> w, height |-> w]
        /\ config = [DefaultConfig EXCEPT !.NUM_FRAMES = Len(store)]
        /\ physics = NewPhysics(DefaultConfig)
        /\ frames = store
        /\ isRunning = FALSE
        /\ animationId = 0
        /\ rafPending = {}
        /\ handlers = <<NewEventHandler(LiveTarget(Len(store)))>>
        /\ tweakpane = NoTweakpane(dev)
        /\ timers = {}
        /\ lastOp = "construct"
        /\ lastUpdate = "none"
        /\ prev = <<>>
        /\ calls = <<>>
        /\ rendered = NotRendered
        /\ app = NewApp(FALSE)

\* The production deployment: no control panel is ever created.
Init == \E w \in CanvasWidths : Constructed(w, FALSE)

Next ==
    \/ GameInit
    \/ Start
    \/ Stop
    \/ Destroy
    \/ AnimationFrame
    \/ MouseDown
    \/ MouseMove
    \/ MouseUp
    \/ TouchStart
    \/ TouchMove
    \/ TouchEnd
    \/ Resize

Spec == Init /\ [][Next]_vars

\* A development host (localhost and the like): init() creates the control panel.
DevInit == \E w \in CanvasWidths : Constructed(w, TRUE)

DevNext ==
    \/ Next
    \/ PaneChange
    \/ PaneTimer
    \/ PaneReset

SpecDev == DevInit /\ [][DevNext]_vars

(***************************************************************************)
(* The page before the game exists, and the constructor as a step.         *)
(***************************************************************************)
\* The page is loaded and App.game is null: no store, no drag controller, no
\* callback requested.
PageLoaded ==
    /\ canvas = [width |-> 0, height |-> 0]
    /\ config = DefaultConfig
    /\ physics = NewPhysics(DefaultConfig)
    /\ frames = <<>>
    /\ isRunning = FALSE
    /\ animationId = 0
    /\ rafPending = {}
    /\ handlers = <<>>
    /\ tweakpane = NoTweakpane(FALSE)
    /\ timers = {}
    /\ lastOp = "load"
    /\ lastUpdate = "none"
    /\ prev = <<>>
    /\ calls = <<>>
    /\ rendered = NotRendered
    /\ app \in {NewApp(deferred) : deferred \in BOOLEAN}

\* Faulty variant: the canvas is looked at only after the set-up.
NewFramePusherCheckingLate(found, w) ==
    LET store == CreateFrames(DefaultConfig, w)
    IN  /\ canvas' = [width |-> w, height |-> w]
        /\ config' = [DefaultConfig EXCEPT !.NUM_FRAMES = Len(store)]
        /\ physics' = NewPhysics(DefaultConfig)
        /\ frames' = store
        /\ handlers' = <<NewEventHandler(LiveTarget(Len(store)))>>
        /\ lastOp' = IF found THEN "construct" ELSE "threw"
        /\ UNCHANGED <<isRunning, animationId, rafPending, tweakpane, timers,
                       lastUpdate, prev, calls, rendered>>

\* new FramePusher(canvasId): document.getElementById finds the canvas or not.
\* Without a canvas the constructor throws at once; with one of width w it sets
\* up the configuration, the engine, the store and the drag controller.
NewFramePusher(found, w) ==
    IF ~found
    THEN /\ lastOp' = "threw"
         /\ UNCHANGED <<canvas, config, physics, frames, isRunning, animationId,
                        rafPending, handlers, tweakpane, timers, lastUpdate, prev,
                        calls, rendered>>
    ELSE LET store == CreateFrames(DefaultConfig, w)
         IN  /\ canvas' = [width |-> w, height |-> w]
             /\ config' = [DefaultConfig EXCEPT !.NUM_FRAMES = Len(store)]
             /\ physics' = NewPhysics(DefaultConfig)
             /\ frames' = store
             /\ handlers' = <<NewEventHandler(LiveTarget(Len(store)))>>
             /\ lastOp' = "construct"
             /\ UNCHANGED <<isRunning, animationId, rafPending, tweakpane, timers,
                            lastUpdate, prev, calls, rendered>>

\* App._createGameInstance, up to the constructor's return or throw; init()
\* follows as GameInit when the constructor returned.
CreateGameInstance ==
    /\ lastOp = "load"
    /\ \E found \in BOOLEAN, w \in CanvasWidths :
           /\ NewFramePusher(found, w)
           /\ app' = AfterCreateGameInstance(app, ~found)

BootNext ==
    \/ CreateGameInstance
    \/ Next

SpecBoot == PageLoaded /\ [][BootNext]_vars

(***************************************************************************)
(* The EventHandler class kept in FramePusher.js: mouse events only, and   *)
(* its move handler writes the target without a clamp. A build whose       *)
(* './EventHandler.js' is this class runs SpecLegacy.                      *)
(***************************************************************************)
\* _handleMouseMove of that class: target.x = mousePos.x - offsetX, and y alike.
LegacyMoveTarget(h, target, position) ==
    [target EXCEPT !.x = Minus(position.x, h.offsetX),
                   !.y = Minus(position.y, h.offsetY)]

LegacyHandleMouseMove(hs, frs, k, position) ==
    LET h == hs[k]
        moved == LegacyMoveTarget(h, TargetFrame(h, frs), position)
    IN  IF ~h.bound \/ ~h.isDragging
        THEN [handlers |-> hs, frames |-> frs]
        ELSE IF h.target.live
        THEN [handlers |-> hs, frames |-> [frs EXCEPT ![h.target.index] = moved]]
        ELSE [handlers |-> [hs EXCEPT ![k].target.obj = moved], frames |-> frs]

\* mousemove on the window; this wiring has one handler.
LegacyMouseMove ==
    /\ Initialized
    /\ \E p \in PointerInputs :
           LET r == LegacyHandleMouseMove(handlers, frames, Len(handlers), p)
           IN  /\ handlers' = r.handlers
               /\ frames' = r.frames
               /\ UNCHANGED app
               /\ lastOp' = "event"
               /\ lastUpdate' = "none"
               /\ Forgotten
               /\ UNCHANGED <<tweakpane, timers, canvas, config, physics, isRunning,
                              animationId, rafPending>>

\* mousedown and mouseup of that class do what _handleDragStart and
\* _handleDragEnd do.
LegacyNext ==
    \/ GameInit
    \/ Start
    \/ Stop
    \/ Destroy
    \/ AnimationFrame
    \/ MouseDown
    \/ LegacyMouseMove
    \/ MouseUp
    \/ Resize

SpecLegacy == Init /\ [][LegacyNext]_vars

(***************************************************************************)
(* The engine called directly: a store is arranged, the handle is put      *)
(* somewhere, and the operations of Physics are called on the store.       *)
(***************************************************************************)
\* The number of direct calls made on one store.
MaxCalls == 3

\* The canvas the hand-built stores lie on.
HarnessCanvas == 320

\* Thickness and gap of the stores built by _createFrames: zero is allowed.
HarnessThicknesses == {0, DefaultThickness}

HarnessGaps == {0, DefaultGap}

\* Canvas widths for the built stores: the widths of the program's runs, widths
\* that leave a remainder (and odd differences, so half-pixel positions), and
\* a canvas narrower than the handle.
HarnessWidths == CanvasWidths \cup {w + 25 : w \in CanvasWidths} \cup {30}

\* Handle sizes for the built stores: the default, and an odd one.
HarnessHandleSizes == {HandleSize, HandleSize - 15}

HarnessConfig(t, g) ==
    [DefaultConfig EXCEPT !.FRAME_THICKNESS = t, !.GAP = g,
                          !.DAMPING = Half, !.SPRING_STRENGTH = Half]

MakeFrame(x, y, width, height, vx, vy) ==
    [x |-> Num(x), y |-> Num(y), vx |-> Num(vx), vy |-> Num(vy),
     width |-> width, height |-> height]

\* Frames a hand-built store is made of, in any order and with repetition: a
\* child may be larger than its parent, frames need not be square, and
\* velocities need not be zero. In the order given they form a contained chain.
FrameChoices ==
    {MakeFrame(0, 0, 200, 200, 4, 0),
     MakeFrame(30, 20, 120, 140, -2, 6),
     MakeFrame(60, 50, 40, 40, 0, 0)}

ArbitraryStores == UNION {[1..n -> FrameChoices] : n \in 1..MaxFrames}

\* Hand-built stores whose handle is too wide for its parent's inner area but
\* not too tall.
LopsidedStores ==
    {<<MakeFrame(0, 0, 200, 200, 4, 0), MakeFrame(40, 40, 170, 90, 0, 0)>>,
     <<MakeFrame(0, 0, 300, 300, 0, 0), MakeFrame(0, 0, 200, 200, 4, 0),
       MakeFrame(40, 40, 170, 90, 0, 0)>>}

\* The store of the concrete scenario, before the handle is moved.
ScenarioStore ==
    <<MakeFrame(0, 0, 300, 300, 0, 0),
      MakeFrame(10, 10, 200, 200, 0, 0),
      MakeFrame(100, 100, 40, 40, 0, 0)>>

\* Where the handle is put by a direct write (no clamp).
HandlePlaces ==
    {Point(280, 10), Point(0, 0), Point(-50, 70), Point(130, 60),
     Point(75, 60), Point(60, 170), Point(300, 300)}

\* A store, its configuration and its canvas, with one drag controller whose
\* target is the handle.
Arranged(store, cfg, w) ==
    /\ canvas = [width |-> w, height |-> w]
    /\ config = [cfg EXCEPT !.NUM_FRAMES = Len(store)]
    /\ physics = NewPhysics(cfg)
    /\ frames = store
    /\ isRunning = FALSE
    /\ animationId = 0
    /\ rafPending = {}
    /\ handlers = <<NewEventHandler(LiveTarget(Len(store)))>>
    /\ tweakpane = NoTweakpane(FALSE)
    /\ timers = {}
    /\ lastOp = "arrange"
    /\ lastUpdate = "none"
    /\ prev = store
    /\ calls = <<>>
    /\ rendered = NotRendered
    /\ app = NewApp(FALSE)

PhysicsInit ==
    \/ \E w \in HarnessWidths, t \in HarnessThicknesses, g \in HarnessGaps,
           h \in HarnessHandleSizes :
           LET cfg == [HarnessConfig(t, g) EXCEPT !.HANDLE_SIZE = h]
           IN  Arranged(CreateFrames(cfg, w), cfg, w)
    \/ \E store \in ArbitraryStores \cup LopsidedStores :
           Arranged(store, HarnessConfig(DefaultThickness, DefaultGap), HarnessCanvas)
    \/ Arranged(ScenarioStore, HarnessConfig(DefaultThickness, DefaultGap), HarnessCanvas)

\* What every direct call records: the store it was given and its name.
Called(name) ==
    /\ Len(calls) < MaxCalls
    /\ prev' = frames
    /\ calls' = Append(calls, name)
    /\ UNCHANGED app
    /\ lastOp' = name
    /\ lastUpdate' = "none"
    /\ UNCHANGED <<canvas, config, physics, isRunning, animationId, rafPending,
                   tweakpane, timers, rendered>>

\* The handle is written directly, before any call.
PlaceHandle ==
    \E p \in HandlePlaces :
        /\ calls = <<>>
        /\ Called("place")
        /\ frames' = [frames EXCEPT ![Last(frames)].x = p.x, ![Last(frames)].y = p.y]
        /\ UNCHANGED handlers

\* The handle is moved by the drag controller (with its clamp), before any call.
CallDragMove ==
    \E p \in Positions(canvas.width) :
        LET r == HandleDragMove(handlers, frames, 1, p, canvas)
        IN  /\ calls = <<>>
            /\ Called("_handleDragMove")
            /\ frames' = r.frames
            /\ handlers' = r.handlers

\* A press (mousedown or touchstart) on the canvas, before any call:
\* _handleDragStart, and through onDragStart FramePusher._onDragStart.
CallDragStart ==
    \E p \in Positions(canvas.width) :
        LET r == DispatchStart(handlers, frames, 1, p)
        IN  /\ calls = <<>>
            /\ Called("_handleDragStart")
            /\ frames' = r.frames
            /\ handlers' = r.handlers

CallUpdateDragPhysics ==
    /\ Called("updateDragPhysics")
    /\ frames' = UpdateDragPhysics(physics, frames, config.NUM_FRAMES)
    /\ UNCHANGED handlers

CallUpdateSettlingPhysics ==
    /\ Called("updateSettlingPhysics")
    /\ frames' = UpdateSettlingPhysics(physics, frames, canvas.width, canvas.height)
    /\ UNCHANGED handlers

CallStopAllMovement ==
    /\ Called("stopAllMovement")
    /\ frames' = StopAllMovement(frames)
    /\ UNCHANGED handlers

PhysicsNext ==
    \/ PlaceHandle
    \/ CallDragMove
    \/ CallDragStart
    \/ CallUpdateDragPhysics
    \/ CallUpdateSettlingPhysics
    \/ CallStopAllMovement

SpecPhysics == PhysicsInit /\ [][PhysicsNext]_vars

(***************************************************************************)
(* Containment, as the specification states it.                            *)
(***************************************************************************)
\* The four edge rules for one pair, with thickness t.
PairContained(parent, child, t) ==
    /\ LessEq(Plus(child.x, Num(child.width - parent.width + t)), parent.x)
    /\ LessEq(parent.x, Minus(child.x, Num(t)))
    /\ LessEq(Plus(child.y, Num(child.height - parent.height + t)), parent.y)
    /\ LessEq(parent.y, Minus(child.y, Num(t)))

Contained(frs, t) ==
    \A i \in 1..(Len(frs) - 1) : PairContained(frs[i], frs[i + 1], t)

\* frs is the store _createFrames builds for the current configuration and
\* canvas, with its handle at any position.
FromCreateFrames(frs) ==
    LET built == CreateFrames(config, canvas.width)
    IN  /\ Len(frs) = Len(built)
        /\ \A i \in 1..(Len(frs) - 1) : frs[i] = built[i]
        /\ frs[Len(frs)].width = built[Len(frs)].width
        /\ frs[Len(frs)].height = built[Len(frs)].height

SamePositions(frs, old) ==
    /\ Len(frs) = Len(old)
    /\ \A i \in 1..Len(frs) : frs[i].x = old[i].x /\ frs[i].y = old[i].y

SameSizes(frs, old) ==
    /\ Len(frs) = Len(old)
    /\ \A i \in 1..Len(frs) :
           frs[i].width = old[i].width /\ frs[i].height = old[i].height

\* The x the right rule asks of a parent: the smallest x that satisfies it.
RightRuleX(parent, child, t) ==
    Plus(child.x, Num(child.width - parent.width + t))

(***************************************************************************)
(* C1. After one call of updateDragPhysics on a store built by             *)
(* _createFrames (gap >= 0, thickness >= 0), the handle being anywhere,    *)
(* every adjacent pair satisfies the four edge rules.                      *)
(***************************************************************************)
C1_ChainCorrectedInOneCall ==
    (lastOp = "updateDragPhysics" /\ FromCreateFrames(prev))
        => Contained(frames, physics.FRAME_THICKNESS)

\* A built store of three or more frames whose handle was put outside its
\* parent, and whose outermost frame the call had to move.
C1_Witness ==
    /\ lastOp = "updateDragPhysics"
    /\ FromCreateFrames(prev)
    /\ Len(prev) >= 3
    /\ ~PairContained(prev[Len(prev) - 1], prev[Len(prev)], physics.FRAME_THICKNESS)
    /\ frames[1] # prev[1]
    /\ Contained(frames, physics.FRAME_THICKNESS)

(***************************************************************************)
(* C2. updateDragPhysics is idempotent: a second call right after a first  *)
(* leaves every frame's x and y as the first call left them, for every     *)
(* store and handle position, a child larger than its parent included.     *)
(***************************************************************************)
C2_Idempotent ==
    (/\ Len(calls) >= 2
     /\ calls[Len(calls)] = "updateDragPhysics"
     /\ calls[Len(calls) - 1] = "updateDragPhysics")
        => SamePositions(frames, prev)

\* Two calls in a row on a store where some child is wider than its parent, so
\* that the pair cannot be contained, after the handle was put somewhere.
C2_Witness ==
    /\ calls = <<"place", "updateDragPhysics", "updateDragPhysics">>
    /\ \E i \in 1..(Len(frames) - 1) :
           /\ frames[i + 1].width > frames[i].width
           /\ ~PairContained(frames[i], frames[i + 1], physics.FRAME_THICKNESS)
    /\ SamePositions(frames, prev)

(***************************************************************************)
(* C3. In a contained 3-frame chain whose handle is moved right past its   *)
(* parent's right inner edge, one call sets the parent's x to exactly      *)
(* handle.x + handle.width - parent.width + T, and the outer frame's x to  *)
(* middle.x + middle.width - outer.width + T when its old x is smaller     *)
(* than that, leaving it unchanged otherwise.                              *)
(***************************************************************************)
\* The chain before the call: the outer pair is contained, the middle frame has
\* room for the handle (it held it before the move), and the handle now
\* exceeds the middle frame's right inner edge.
C3_Chain(frs, t) ==
    /\ Len(frs) = 3
    /\ PairContained(frs[1], frs[2], t)
    /\ frs[2].width - frs[3].width >= 2 * t
    /\ frs[2].height - frs[3].height >= 2 * t
    /\ Less(frs[2].x, RightRuleX(frs[2], frs[3], t))

C3_RightPushExact ==
    (lastOp = "updateDragPhysics" /\ C3_Chain(prev, physics.FRAME_THICKNESS))
        => LET t == physics.FRAME_THICKNESS
               outerX == RightRuleX(prev[1], frames[2], t)
           IN  /\ frames[2].x = RightRuleX(prev[2], prev[3], t)
               /\ frames[1].x = IF Less(prev[1].x, outerX) THEN outerX ELSE prev[1].x

\* The chain reaction reaches the outer frame.
C3_Witness ==
    /\ lastOp = "updateDragPhysics"
    /\ C3_Chain(prev, physics.FRAME_THICKNESS)
    /\ physics.FRAME_THICKNESS > 0
    /\ frames[2].x # prev[2].x
    /\ frames[1].x # prev[1].x

(***************************************************************************)
(* C4. The concrete scenario (thickness 20, outer 300x300 at 0,0, middle   *)
(* 200x200 at 10,10, handle 40x40 put at 280,10): after one call of        *)
(* updateDragPhysics, middle.x equals 140.                                 *)
(***************************************************************************)
ScenarioMoved == [ScenarioStore EXCEPT ![3].x = Num(280), ![3].y = Num(10)]

ScenarioCalled ==
    /\ calls = <<"place", "updateDragPhysics">>
    /\ prev = ScenarioMoved
    /\ physics.FRAME_THICKNESS = 20

C4_ScenarioMiddle == ScenarioCalled => frames[2].x = Num(140)

C4_Witness == ScenarioCalled /\ frames[2].x = Num(140) /\ frames[3].x = Num(280)

(***************************************************************************)
(* C5. The same scenario: after the call, outer.x equals 120.              *)
(* This fails: the left rule does not fire (0 > 140 - 20 is false) and the *)
(* right rule sets outer.x to 140 + 200 - 300 + 20 = 60.                   *)
(***************************************************************************)
C5_ScenarioOuterAsClaimed == ScenarioCalled => frames[1].x = Num(120)

\* C5, amended: after the call, outer.x equals 60.
C5_ScenarioOuter == ScenarioCalled => frames[1].x = Num(60)

C5_Witness == ScenarioCalled /\ frames[1].x = Num(60) /\ prev[1].x = Num(0)

(***************************************************************************)
(* C6. updateDragPhysics changes only the x and y of the frames before the *)
(* last: the handle keeps its x and y, and every frame keeps its width,    *)
(* height, vx and vy.                                                      *)
(***************************************************************************)
C6_DragFrameEffect ==
    lastOp = "updateDragPhysics"
        => /\ Len(frames) = Len(prev)
           /\ frames[Len(frames)] = prev[Len(prev)]
           /\ \A i \in 1..Len(frames) :
                  /\ frames[i].width = prev[i].width
                  /\ frames[i].height = prev[i].height
                  /\ frames[i].vx = prev[i].vx
                  /\ frames[i].vy = prev[i].vy

\* The call moved a frame that has a velocity.
C6_Witness ==
    /\ lastOp = "updateDragPhysics"
    /\ \E i \in 1..(Len(frames) - 1) :
           /\ frames[i].x # prev[i].x
           /\ frames[i].y # prev[i].y
           /\ prev[i].vx # Num(0)
           /\ frames[i].vx = prev[i].vx

(***************************************************************************)
(* C7. Between two rebuilds of the store no operation changes a width or a *)
(* height: a drag move, updateDragPhysics, updateSettlingPhysics and       *)
(* stopAllMovement each leave every frame's width and height as they were. *)
(***************************************************************************)
C7_SizesKept ==
    lastOp \in {"_handleDragMove", "updateDragPhysics", "updateSettlingPhysics",
                "stopAllMovement"}
        => SameSizes(frames, prev)

\* A drag move, then a settling call that moved frames, then stopAllMovement
\* on frames that were moving.
C7_Witness ==
    /\ calls = <<"_handleDragMove", "updateSettlingPhysics", "stopAllMovement">>
    /\ frames # prev
    /\ SameSizes(frames, prev)
    /\ frames[1].width > 0

(***************************************************************************)
(* C8. Whenever a drag move leaves some adjacent pair violating            *)
(* containment, the next tick of the animation loop corrects it, for every *)
(* interleaving of pointer and touch events and ticks. Pairs are violated  *)
(* by drag moves only, so this says: after every tick the store is         *)
(* contained.                                                              *)
(* This fails: after a move and a release, the next tick finds no drag and *)
(* updates nothing.                                                        *)
(***************************************************************************)
C8_CorrectedByNextTick ==
    lastOp = "tick" => Contained(frames, physics.FRAME_THICKNESS)

\* C8, amended: a violation left by a drag move is corrected by the next tick
\* at which the drag controller still reports dragging.
C8_CorrectedByNextDragTick ==
    (lastOp = "tick" /\ IsDragging(handlers))
        => Contained(frames, physics.FRAME_THICKNESS)

\* A tick during a drag that found a violated store and moved the outermost
\* of three or more frames.
C8_Witness ==
    /\ lastOp = "tick"
    /\ IsDragging(handlers)
    /\ Len(frames) >= 3
    /\ ~Contained(prev, physics.FRAME_THICKNESS)
    /\ frames[1] # prev[1]
    /\ Contained(frames, physics.FRAME_THICKNESS)

(***************************************************************************)
(* C9. On every tick the driver runs updateDragPhysics when the drag       *)
(* controller reports dragging, and updateSettlingPhysics when it does     *)
(* not.                                                                    *)
(* This fails: the call of updateSettlingPhysics is commented out.         *)
(***************************************************************************)
C9_SettlingWhenNotDragging ==
    lastOp = "tick"
        => frames = IF IsDragging(handlers)
                    THEN UpdateDragPhysics(physics, prev, config.NUM_FRAMES)
                    ELSE UpdateSettlingPhysics(physics, prev, canvas.width,
                                               canvas.height)

\* C9, amended: on every tick the driver runs updateDragPhysics when the drag
\* controller reports dragging, and runs no update when it does not: the store
\* is left as it was.
C9_NoUpdateWhenNotDragging ==
    lastOp = "tick"
        => IF IsDragging(handlers)
           THEN /\ lastUpdate = "drag"
                /\ Contained(frames, physics.FRAME_THICKNESS)
           ELSE /\ lastUpdate = "idle"
                /\ frames = prev

\* A tick without a drag on a store that violates containment, where the
\* settling update would have changed the store.
C9_Witness ==
    /\ lastOp = "tick"
    /\ ~IsDragging(handlers)
    /\ ~Contained(prev, physics.FRAME_THICKNESS)
    /\ frames = prev
    /\ UpdateSettlingPhysics(physics, prev, canvas.width, canvas.height) # prev

(***************************************************************************)
(* C10. For every sequence of init, start, stop, visibility changes and    *)
(* destroy, at most one animation-frame callback is pending at any time    *)
(* (start while running creates no second loop).                           *)
(***************************************************************************)
C10_OneCallbackPending ==
    /\ Cardinality(rafPending) <= 1
    /\ rafPending \subseteq {animationId}

\* start() was called while the loop was running.
C10_Witness ==
    /\ lastOp = "start"
    /\ isRunning
    /\ Cardinality(rafPending) = 1

(***************************************************************************)
(* C11. Within a tick the physics update completes before the render and   *)
(* no pointer event comes between them: the store drawn is the store the   *)
(* update left, and every store drawn while the dragging flag is true      *)
(* satisfies containment for all adjacent pairs.                           *)
(***************************************************************************)
C11_RenderedAfterUpdate ==
    rendered.drawn
        => /\ lastOp = "tick"
           /\ rendered.frames = frames
           /\ rendered.isDragging = IsDragging(handlers)
           /\ rendered.isDragging
                  => Contained(rendered.frames, physics.FRAME_THICKNESS)

\* A tick during a drag found a violated store, and drew it corrected.
C11_Witness ==
    /\ rendered.drawn
    /\ rendered.isDragging
    /\ Len(prev) >= 3
    /\ ~Contained(prev, physics.FRAME_THICKNESS)
    /\ rendered.frames # prev
    /\ Contained(rendered.frames, physics.FRAME_THICKNESS)

(***************************************************************************)
(* C12. After every drag move (mouse or touch) the handle satisfies        *)
(* 0 <= x <= canvas.width - handle.width and 0 <= y <= canvas.height -     *)
(* handle.height, for every pointer position, when the handle is not       *)
(* larger than the canvas. Only drag moves write the handle, so this says  *)
(* that the handle lies within the canvas in every state.                  *)
(* This fails for the mouse move of the EventHandler in FramePusher.js.    *)
(***************************************************************************)
HandleFits ==
    /\ frames[Last(frames)].width <= canvas.width
    /\ frames[Last(frames)].height <= canvas.height

WithinCanvas(frame) ==
    /\ LessEq(Num(0), frame.x)
    /\ LessEq(frame.x, Num(canvas.width - frame.width))
    /\ LessEq(Num(0), frame.y)
    /\ LessEq(frame.y, Num(canvas.height - frame.height))

C12_HandleWithinCanvas == HandleFits => WithinCanvas(frames[Last(frames)])

(***************************************************************************)
(* C13. In every reachable state, after any sequence of resizes, control   *)
(* panel changes and Reset, the drag controller's target is the last frame *)
(* of the current store, so a drag move writes that frame only and never a *)
(* frame the store no longer holds.                                        *)
(* This fails: Reset rebuilds the store and leaves the controller with the *)
(* handle of the store it replaced.                                        *)
(***************************************************************************)
C13_TargetIsHandle ==
    LET h == handlers[Len(handlers)]
    IN  h.target.live /\ h.target.index = Last(frames)

(***************************************************************************)
(* C14. Whenever the dragging flag goes from false to true because a press *)
(* landed on the handle, stopAllMovement runs on the current store in the  *)
(* same event: every frame has vx = 0 and vy = 0 before the next tick. (A  *)
(* press that misses the handle changes nothing.)                          *)
(***************************************************************************)
AtRest(frs) == \A i \in 1..Len(frs) : frs[i].vx = Num(0) /\ frs[i].vy = Num(0)

C14_DragStartStopsMovement ==
    lastOp = "_handleDragStart"
        => IF IsDragging(handlers)
           THEN AtRest(frames) /\ SamePositions(frames, prev)
           ELSE frames = prev

\* The press started a drag on a store whose frames were moving.
C14_Witness ==
    /\ lastOp = "_handleDragStart"
    /\ IsDragging(handlers)
    /\ Len(prev) >= 2
    /\ ~AtRest(prev)
    /\ AtRest(frames)

(***************************************************************************)
(* C15. After stopAllMovement(frames) every frame has vx = 0 and vy = 0,   *)
(* whatever the velocities were, and no frame's x, y, width or height has  *)
(* changed.                                                                *)
(***************************************************************************)
C15_StopAllMovement ==
    lastOp = "stopAllMovement"
        => /\ AtRest(frames)
           /\ SamePositions(frames, prev)
           /\ SameSizes(frames, prev)

\* Frames were moving on both axes, some after a settling call.
C15_Witness ==
    /\ lastOp = "stopAllMovement"
    /\ \E i \in 1..Len(prev) : prev[i].vx # Num(0) /\ prev[i].vy # Num(0)
    /\ calls[1] = "updateSettlingPhysics"
    /\ AtRest(frames)

(***************************************************************************)
(* The overlap the settling engine measures.                               *)
(***************************************************************************)
Positive(a) == IF Less(Num(0), a) THEN a ELSE Num(0)

\* How far one frame lies outside the four bounds its parent allows it.
FrameOverlap(frame, parent, parentInnerOffset) ==
    LET b == CalculateBoundaries(parent, frame, parentInnerOffset)
    IN  Plus(Plus(Positive(Minus(b.minX, frame.x)), Positive(Minus(frame.x, b.maxX))),
             Plus(Positive(Minus(b.minY, frame.y)), Positive(Minus(frame.y, b.maxY))))

RECURSIVE OverlapFrom(_, _, _, _)
OverlapFrom(frs, i, t, cnv) ==
    IF i > Len(frs) THEN Num(0)
    ELSE Plus(FrameOverlap(frs[i],
                           GetParentFrame(frs, i, cnv.width, cnv.height),
                           IF i > 1 THEN t ELSE 0),
              OverlapFrom(frs, i + 1, t, cnv))

TotalOverlap(frs, t, cnv) == OverlapFrom(frs, 1, t, cnv)

(***************************************************************************)
(* C16. From any state with a boundary violation, with 0 < DAMPING < 1 and *)
(* SPRING_STRENGTH > 0 and no further input, each call of                  *)
(* updateSettlingPhysics leaves the total absolute overlap, summed over    *)
(* all frames, no larger than it was before the call (and the overlap and  *)
(* the velocities tend to zero).                                           *)
(* This fails: a call can leave the total overlap larger than it found it. *)
(***************************************************************************)
C16_OverlapNeverGrows ==
    (/\ lastOp = "updateSettlingPhysics"
     /\ Less(Num(0), TotalOverlap(prev, physics.FRAME_THICKNESS, canvas)))
        => LessEq(TotalOverlap(frames, physics.FRAME_THICKNESS, canvas),
                  TotalOverlap(prev, physics.FRAME_THICKNESS, canvas))

(***************************************************************************)
(* The spring impulses of one settling call, written from the positions    *)
(* the call's first loop leaves: prev is the store before the call.        *)
(***************************************************************************)
MovedX(j) == Plus(prev[j].x, Times(prev[j].vx, physics.DAMPING))
MovedY(j) == Plus(prev[j].y, Times(prev[j].vy, physics.DAMPING))

\* The signed overlap of a position with the interval [lo, hi]: positive below
\* lo, negative above hi, both when the interval is empty.
Signed(pos, lo, hi) ==
    Plus(IF Less(pos, lo) THEN Minus(lo, pos) ELSE Num(0),
         IF Less(hi, pos) THEN Minus(hi, pos) ELSE Num(0))

CrossedX(j) ==
    IF j > 1
    THEN Signed(MovedX(j),
                Plus(MovedX(j - 1), Num(physics.FRAME_THICKNESS)),
                Plus(MovedX(j - 1),
                     Num(prev[j - 1].width - physics.FRAME_THICKNESS - prev[j].width)))
    ELSE Signed(MovedX(j), Num(0), Num(canvas.width - prev[j].width))

CrossedY(j) ==
    IF j > 1
    THEN Signed(MovedY(j),
                Plus(MovedY(j - 1), Num(physics.FRAME_THICKNESS)),
                Plus(MovedY(j - 1),
                     Num(prev[j - 1].height - physics.FRAME_THICKNESS - prev[j].height)))
    ELSE Signed(MovedY(j), Num(0), Num(canvas.height - prev[j].height))

\* What frame j receives: its own impulse, and half of its child's, reversed.
Impulse(own, child, hasChild) ==
    Minus(Times(own, physics.SPRING_STRENGTH),
          IF hasChild THEN Times(Times(child, physics.SPRING_STRENGTH), Rat(1, 2))
          ELSE Num(0))

(***************************************************************************)
(* C17. In updateSettlingPhysics a frame that has crossed one of its       *)
(* bounds by the signed overlap o has o * SPRING_STRENGTH added to its     *)
(* velocity on that axis and its parent frame receives                     *)
(* -o * SPRING_STRENGTH * 0.5; the outermost frame, whose parent is the    *)
(* canvas with inner offset 0, passes no reactive impulse to any frame.    *)
(* Hence after a call every frame's velocity is its damped old velocity    *)
(* plus its own impulse minus half of its child's, and nothing else.       *)
(***************************************************************************)
C17_SpringImpulses ==
    lastOp = "updateSettlingPhysics" =>
        \A i \in 1..Len(frames) :
            /\ frames[i].x = MovedX(i)
            /\ frames[i].y = MovedY(i)
            /\ frames[i].vx =
                   Plus(Times(prev[i].vx, physics.DAMPING),
                        Impulse(CrossedX(i),
                                IF i < Len(frames) THEN CrossedX(i + 1) ELSE Num(0),
                                i < Len(frames)))
            /\ frames[i].vy =
                   Plus(Times(prev[i].vy, physics.DAMPING),
                        Impulse(CrossedY(i),
                                IF i < Len(frames) THEN CrossedY(i + 1) ELSE Num(0),
                                i < Len(frames)))

\* A call in which an inner frame and the outermost frame have both crossed a
\* bound on the x axis.
C17_Witness ==
    /\ lastOp = "updateSettlingPhysics"
    /\ Len(frames) > 1
    /\ CrossedX(1) # Num(0)
    /\ \E i \in 2..Len(frames) : CrossedX(i) # Num(0)

(***************************************************************************)
(* What _createFrames builds.                                              *)
(***************************************************************************)
Centred(frame) ==
    /\ Plus(Plus(frame.x, frame.x), Num(frame.width)) = Num(canvas.width)
    /\ Plus(Plus(frame.y, frame.y), Num(frame.height)) = Num(canvas.height)

(***************************************************************************)
(* C18. Every store built by _createFrames, whatever the canvas width,     *)
(* HANDLE_SIZE, GAP >= 0 and FRAME_THICKNESS >= 0, has at least one frame; *)
(* its last frame is HANDLE_SIZE wide and tall; each frame is at least     *)
(* 2 * FRAME_THICKNESS wider and taller than the next; every frame is      *)
(* centred on the canvas and has zero velocity; and every adjacent pair is *)
(* contained.                                                              *)
(***************************************************************************)
C18_CreatedStore ==
    (/\ frames = CreateFrames(config, canvas.width)
     /\ config.GAP >= 0
     /\ config.FRAME_THICKNESS >= 0)
        => /\ Len(frames) >= 1
           /\ frames[Len(frames)].width = config.HANDLE_SIZE
           /\ frames[Len(frames)].height = config.HANDLE_SIZE
           /\ \A i \in 1..(Len(frames) - 1) :
                  /\ frames[i].width >= frames[i + 1].width + 2 * config.FRAME_THICKNESS
                  /\ frames[i].height >= frames[i + 1].height + 2 * config.FRAME_THICKNESS
           /\ \A i \in 1..Len(frames) :
                  /\ Centred(frames[i])
                  /\ frames[i].vx = Num(0)
                  /\ frames[i].vy = Num(0)
           /\ Contained(frames, config.FRAME_THICKNESS)

\* A built store of three frames whose canvas leaves a remainder, so that the
\* handle is smaller than the regular step would make it.
C18_Witness ==
    /\ lastOp = "arrange"
    /\ frames = CreateFrames(config, canvas.width)
    /\ Len(frames) >= 3
    /\ (canvas.width - config.HANDLE_SIZE) % StepDown(config) # 0
    /\ config.FRAME_THICKNESS > 0

(***************************************************************************)
(* Degenerate inputs of updateDragPhysics.                                 *)
(***************************************************************************)
\* The child does not fit between the parent's inner edges.
TooWide(parent, child, t) == child.width + 2 * t > parent.width
TooTall(parent, child, t) == child.height + 2 * t > parent.height

BottomRuleY(parent, child, t) ==
    Plus(child.y, Num(child.height - parent.height + t))

(***************************************************************************)
(* C19. updateDragPhysics raises no error on degenerate inputs and gives a *)
(* defined result. With a single frame the call changes nothing. With a    *)
(* child wider than its parent's inner area                                *)
(* (child.width + 2T > parent.width) the call ends with                    *)
(* parent.x = child.x + child.width - parent.width + T, whatever the       *)
(* parent's position was; and the same on y for a child that is too tall.  *)
(***************************************************************************)
C19_DegenerateInputs ==
    lastOp = "updateDragPhysics" =>
        LET t == physics.FRAME_THICKNESS
        IN  /\ ~DragPhysicsThrows(prev, config.NUM_FRAMES)
            /\ Len(frames) = Len(prev)
            /\ Len(prev) = 1 => frames = prev
            /\ \A i \in 1..(Len(frames) - 1) :
                   /\ TooWide(frames[i], frames[i + 1], t)
                          => frames[i].x = RightRuleX(frames[i], frames[i + 1], t)
                   /\ TooTall(frames[i], frames[i + 1], t)
                          => frames[i].y = BottomRuleY(frames[i], frames[i + 1], t)

\* A call on a store with a child too wide but not too tall for its parent,
\* whose parent stood to the right of where the left rule allows it, so that
\* both horizontal rules moved it.
C19_Witness ==
    /\ lastOp = "updateDragPhysics"
    /\ \E i \in 1..(Len(frames) - 1) :
           /\ TooWide(frames[i], frames[i + 1], physics.FRAME_THICKNESS)
           /\ ~TooTall(frames[i], frames[i + 1], physics.FRAME_THICKNESS)
           /\ Less(Minus(frames[i + 1].x, Num(physics.FRAME_THICKNESS)), prev[i].x)

\* A call on a store of one frame.
C19_SingleFrameCalled == lastOp = "updateDragPhysics" /\ Len(prev) = 1

(***************************************************************************)
(* C20. After stop() no physics update and no render runs until start()    *)
(* is called again, and stop() itself changes no frame's x, y, vx, vy,     *)
(* width or height: stop() leaves the game not running with the store as   *)
(* it found it, and while the game is not running no step is a tick, runs  *)
(* an update or draws the scene.                                           *)
(***************************************************************************)
C20_StoppedStaysStill ==
    /\ lastOp = "stop" => (~isRunning /\ frames = prev)
    /\ ~isRunning => /\ lastOp # "tick"
                     /\ lastUpdate = "none"
                     /\ ~rendered.drawn

\* stop() in the middle of a drag that has left the chain uncorrected: a tick
\* would move a frame.
C20_Witness ==
    /\ lastOp = "stop"
    /\ IsDragging(handlers)
    /\ ~DragPhysicsThrows(frames, config.NUM_FRAMES)
    /\ UpdateDragPhysics(physics, frames, config.NUM_FRAMES) # frames

(***************************************************************************)
(* C21. Constructing FramePusher with an id that matches no canvas element *)
(* throws before any frame is created, any event listener is bound or any  *)
(* animation frame is scheduled (and nothing of the kind happens later).   *)
(***************************************************************************)
C21_ThrowsBeforeSetup ==
    lastOp = "threw" =>
        /\ frames = <<>>
        /\ handlers = <<>>
        /\ rafPending = {}
        /\ animationId = 0
        /\ ~isRunning

\* The constructor has thrown.
C21_Witness == lastOp = "threw" /\ frames = <<>> /\ canvas.width = 0

(***************************************************************************)
(* C22. If every adjacent pair satisfies containment before the call,      *)
(* updateDragPhysics changes no frame's x or y; and in any call a parent   *)
(* is moved only when one of its four rules is violated by the child as    *)
(* the call has left it.                                                   *)
(***************************************************************************)
C22_ContainedIsFixedPoint ==
    lastOp = "updateDragPhysics" =>
        LET t == physics.FRAME_THICKNESS
        IN  /\ Contained(prev, t) => SamePositions(frames, prev)
            /\ \A i \in 1..(Len(frames) - 1) :
                   (frames[i].x # prev[i].x \/ frames[i].y # prev[i].y)
                       => ~PairContained(prev[i], frames[i + 1], t)

\* A first call on a contained store of three frames or more, with a positive
\* thickness, whose handle has been moved.
C22_Witness ==
    /\ lastOp = "updateDragPhysics"
    /\ Len(calls) = 2
    /\ calls[1] \in {"place", "_handleDragMove"}
    /\ Len(prev) >= 3
    /\ physics.FRAME_THICKNESS > 0
    /\ Contained(prev, physics.FRAME_THICKNESS)
    /\ prev[Len(prev)] # CreateFrames(config, canvas.width)[Len(prev)]

(***************************************************************************)
(* Displacements.                                                          *)
(***************************************************************************)
\* d lies between 0 and the handle's displacement D: same direction as D (or
\* no move at all), and no farther.
WithHandle(d, D) ==
    \/ LessEq(Num(0), d) /\ LessEq(d, D)
    \/ LessEq(D, d) /\ LessEq(d, Num(0))

(***************************************************************************)
(* C23. Starting from a store that satisfies containment, after the handle *)
(* is displaced by (dx, dy) and updateDragPhysics is called once, every    *)
(* frame's displacement on each axis has the direction of the handle's     *)
(* displacement on that axis and is no larger in absolute value: no frame  *)
(* moves farther than the handle, and none moves against it.               *)
(* The step checked is the call: before it, prev is the store before the   *)
(* handle was displaced and frames the store with the handle displaced.    *)
(***************************************************************************)
C23_NoFartherThanHandle ==
    [][(/\ lastOp \in {"place", "_handleDragMove"}
        /\ lastOp' = "updateDragPhysics"
        /\ Len(prev) = Len(frames)
        /\ Contained(prev, physics.FRAME_THICKNESS))
           => LET h == Len(frames)
                  dx == Minus(frames[h].x, prev[h].x)
                  dy == Minus(frames[h].y, prev[h].y)
              IN  \A i \in 1..h :
                      /\ WithHandle(Minus(frames'[i].x, prev[i].x), dx)
                      /\ WithHandle(Minus(frames'[i].y, prev[i].y), dy)]_vars

\* A call after the handle of a built store of three frames or more was put
\* somewhere else, which moved the outermost frame on both axes.
C23_Witness ==
    /\ calls = <<"place", "updateDragPhysics">>
    /\ FromCreateFrames(prev)
    /\ Len(frames) >= 3
    /\ frames[1].x # prev[1].x
    /\ frames[1].y # prev[1].y

(***************************************************************************)
(* C24. At every tick, after any sequence of resize, updateConfig,         *)
(* control-panel changes and Reset, config.NUM_FRAMES (the count passed to *)
(* updateDragPhysics) equals the length of the frames array, so the update *)
(* never reads a frame index outside the store.                            *)
(***************************************************************************)
C24_CountMatchesStore ==
    /\ config.NUM_FRAMES = Len(frames)
    /\ lastOp = "tick" => (lastUpdate # "threw" /\ config.NUM_FRAMES = Len(prev))

\* A drag tick on a store whose length the control panel has changed.
C24_Witness ==
    /\ lastOp = "tick"
    /\ lastUpdate = "drag"
    /\ tweakpane.exists
    /\ Len(frames) # Len(CreateFrames(DefaultConfig, canvas.width))

(***************************************************************************)
(* C25. After updateConfig changes FRAME_THICKNESS, the thickness used by  *)
(* the containment engine equals the thickness from which the widths and   *)
(* heights of the current frame store were derived, in every state in      *)
(* which a tick can run: the engine's thickness is the configuration's,    *)
(* and the store has the sizes _createFrames derives from it.              *)
(***************************************************************************)
C25_EngineThicknessIsStoreThickness ==
    /\ physics.FRAME_THICKNESS = config.FRAME_THICKNESS
    /\ SameSizes(frames,
                 CreateFrames([config EXCEPT !.FRAME_THICKNESS = physics.FRAME_THICKNESS],
                              canvas.width))

\* The control panel has changed the thickness, which changed the number of
\* frames, and a tick is about to run.
C25_Witness ==
    /\ tweakpane.exists
    /\ physics.FRAME_THICKNESS # DefaultThickness
    /\ Len(frames) # Len(CreateFrames(DefaultConfig, canvas.width))
    /\ isRunning
    /\ rafPending # {}

(***************************************************************************)
(* C26. Drag-start and drag-end notifications strictly alternate for every *)
(* sequence of mouse and touch events: onDragStart is never invoked twice  *)
(* without an onDragEnd in between, and onDragEnd is invoked exactly once  *)
(* per drag and never while not dragging.                                  *)
(* With the one drag controller of the production wiring: a press calls    *)
(* onDragStart only when no drag is in progress, and a release calls       *)
(* onDragEnd only when one is. The first half fails.                       *)
(***************************************************************************)
C26_NotificationsAlternate ==
    [][/\ lastOp' = "dragstart" => ~handlers[1].isDragging
       /\ lastOp' = "dragend" => handlers[1].isDragging]_vars

(***************************************************************************)
(* The press position relative to the target, as _handleDragStart records  *)
(* it: strictly inside the rectangle of the target.                        *)
(***************************************************************************)
GrabbedInside(h, target) ==
    /\ Less(Num(0), h.offsetX) /\ Less(h.offsetX, Num(target.width))
    /\ Less(Num(0), h.offsetY) /\ Less(h.offsetY, Num(target.height))

(***************************************************************************)
(* C27. The dragging flag becomes true through a pointer or touch press    *)
(* only when the press position is strictly inside the drag target's       *)
(* rectangle, and a pointer or touch move received while the dragging flag *)
(* is false changes no frame's position.                                   *)
(***************************************************************************)
C27_PressInsideAndIdleMoves ==
    [][/\ (~handlers[1].isDragging /\ handlers'[1].isDragging)
              => /\ lastOp' = "dragstart"
                 /\ GrabbedInside(handlers'[1], TargetFrame(handlers[1], frames))
       /\ ((MouseMove \/ TouchMove) /\ ~handlers[1].isDragging)
              => /\ SamePositions(frames', frames)
                 /\ handlers' = handlers]_vars

\* A drag started by a press away from the centre of the handle.
C27_Witness ==
    /\ lastOp = "dragstart"
    /\ handlers[1].isDragging
    /\ GrabbedInside(handlers[1], TargetFrame(handlers[1], frames))
    /\ handlers[1].offsetX # handlers[1].offsetY

(***************************************************************************)
(* A move to `position` that the canvas clamp of _handleDragMove does not  *)
(* limit, for the offsets handler h holds.                                 *)
(***************************************************************************)
NotClamped(h, target, position, cnv) ==
    LET newX == Minus(position.x, h.offsetX)
        newY == Minus(position.y, h.offsetY)
    IN  /\ LessEq(Num(0), newX) /\ LessEq(newX, Num(cnv.width - target.width))
        /\ LessEq(Num(0), newY) /\ LessEq(newY, Num(cnv.height - target.height))

(***************************************************************************)
(* C28. During a drag, after a move to a pointer position p that the       *)
(* canvas clamp does not limit, the handle's position equals p minus the   *)
(* offset recorded when the drag started, so the grabbed point of the      *)
(* handle stays under the pointer; also when the frame store was rebuilt   *)
(* while the drag was in progress.                                         *)
(* The handle is the last frame of the store, the drag that of             *)
(* game.eventHandler. This fails after a rebuild by the control panel.     *)
(***************************************************************************)
C28_GrabbedPointFollows ==
    [][\A p \in PointerInputs :
          LET h == handlers[Len(handlers)]
          IN  (/\ Initialized
               /\ MoveBody(p)
               /\ h.isDragging
               /\ NotClamped(h, TargetFrame(h, frames), p, canvas))
                  => /\ frames'[Len(frames')].x = Minus(p.x, h.offsetX)
                     /\ frames'[Len(frames')].y = Minus(p.y, h.offsetY)]_vars

(***************************************************************************)
(* C29. After EventHandler.destroy() (called from FramePusher.destroy())   *)
(* all listeners bound by _bindEvents are removed: later mouse and touch   *)
(* events no longer change the dragging flag or the drag target's          *)
(* position.                                                               *)
(* Stated for the first mouse or touch event after destroy(). This fails:  *)
(* the listeners are still bound.                                          *)
(***************************************************************************)
C29_DestroyedIgnoresEvents ==
    [][(/\ lastOp = "destroy"
        /\ MouseDown \/ MouseMove \/ MouseUp \/ TouchStart \/ TouchMove \/ TouchEnd)
           => /\ handlers'[1].isDragging = handlers[1].isDragging
              /\ TargetFrame(handlers'[1], frames').x = TargetFrame(handlers[1], frames).x
              /\ TargetFrame(handlers'[1], frames').y = TargetFrame(handlers[1], frames).y]_vars

(***************************************************************************)
(* C30. Once control-panel changes stop arriving, the game configuration   *)
(* holds the most recent value of every control that was changed, also     *)
(* when changes to different controls (thickness, gap) arrive within the   *)
(* debounce delay of one another.                                          *)
(* params holds the value each control was last moved to; changes have     *)
(* stopped arriving and taken effect when no debounce timer is pending.    *)
(* This fails: a change is dropped when another control changes before     *)
(* its timer fires.                                                        *)
(***************************************************************************)
C30_ConfigHoldsLatestValues ==
    (PaneUsable /\ timers = {})
        => /\ config.FRAME_THICKNESS = tweakpane.params.frameThickness
           /\ config.GAP = tweakpane.params.gap

NoCrossing(frs) ==
    /\ WithinCanvas(frs[1])
    /\ Contained(frs, physics.FRAME_THICKNESS)

(***************************************************************************)
(* C32. A frame store in which every velocity is zero and no frame crosses *)
(* any of its allowed bounds is a fixed point of updateSettlingPhysics:    *)
(* one call changes no x, y, vx or vy.                                     *)
(***************************************************************************)
C32_RestIsFixedPoint ==
    (/\ lastOp = "updateSettlingPhysics"
     /\ AtRest(prev)
     /\ NoCrossing(prev))
        => frames = prev

\* A call on a store of three frames or more at rest, with a positive
\* thickness, that is not the store _createFrames builds: its handle was
\* moved, or it was built by hand and stopped.
C32_Witness ==
    /\ lastOp = "updateSettlingPhysics"
    /\ AtRest(prev)
    /\ NoCrossing(prev)
    /\ Len(prev) >= 3
    /\ physics.FRAME_THICKNESS > 0
    /\ prev # CreateFrames(config, canvas.width)

(***************************************************************************)
(* The store as the first loop of a settling call leaves its positions.    *)
(***************************************************************************)
MovedStore ==
    [i \in 1..Len(prev) |-> [prev[i] EXCEPT !.x = MovedX(i), !.y = MovedY(i)]]

AbsLessEq(a, b) ==
    /\ LessEq(a, IF Less(b, Num(0)) THEN Minus(Num(0), b) ELSE b)
    /\ LessEq(IF Less(b, Num(0)) THEN b ELSE Minus(Num(0), b), a)

(***************************************************************************)
(* C33. When no frame crosses any allowed bound after the integration      *)
(* step, one call of updateSettlingPhysics replaces each frame's (vx, vy)  *)
(* by (vx * DAMPING, vy * DAMPING) and advances (x, y) by exactly that     *)
(* damped velocity; so with 0 < DAMPING < 1 no velocity component grows in *)
(* absolute value.                                                         *)
(***************************************************************************)
C33_DampedIntegration ==
    (/\ lastOp = "updateSettlingPhysics"
     /\ NoCrossing(MovedStore))
        => \A i \in 1..Len(frames) :
               /\ frames[i].vx = Times(prev[i].vx, physics.DAMPING)
               /\ frames[i].vy = Times(prev[i].vy, physics.DAMPING)
               /\ frames[i].x = Plus(prev[i].x, frames[i].vx)
               /\ frames[i].y = Plus(prev[i].y, frames[i].vy)
               /\ frames[i].width = prev[i].width
               /\ frames[i].height = prev[i].height
               /\ AbsLessEq(frames[i].vx, prev[i].vx)
               /\ AbsLessEq(frames[i].vy, prev[i].vy)

\* A call on a store of three frames, two of them moving (one to the left),
\* that crosses no bound.
C33_Witness ==
    /\ lastOp = "updateSettlingPhysics"
    /\ NoCrossing(MovedStore)
    /\ Len(prev) >= 3
    /\ \E i \in 1..Len(prev) : Less(Num(0), prev[i].vx)
    /\ \E i \in 1..Len(prev) : Less(prev[i].vx, Num(0)) /\ prev[i].vy # Num(0)

(***************************************************************************)
(* C34. If creating the game instance throws during App.init (for example  *)
(* because the canvas is missing), the error message is shown to the user, *)
(* both when the DOM was already loaded at init time and when the creation *)
(* runs later from the DOMContentLoaded callback.                          *)
(* This fails in the second case.                                          *)
(***************************************************************************)
C34_ErrorShown == lastOp = "threw" => app.errorShown

====
